---- MODULE Spec2Model ----
(***************************************************************************)
(* Model of generador-informes (src/main.py): the {{Hoja!Celda}} token     *)
(* substitution over the paragraphs of a Word document with values read    *)
(* from an Excel workbook, and the /procesar request that drives it.       *)
(*                                                                         *)
(* Text is a sequence of one-character strings.  A cell value is a record  *)
(* [t, n, s]: t is the Python type of the value ("none", "int", "float",   *)
(* "bool", "str"), n the number (an int, a bool as 0/1, a float counted in *)
(* eighths, which are exact in binary floating point) and s the text of a  *)
(* str.  A Python call that may raise returns a record with a field exc.   *)
(***************************************************************************)
EXTENDS Integers, Sequences, FiniteSets, TLC

VARIABLES
    pc,          \* position of the /procesar request handler
    excel_name,  \* archivo_excel.filename
    word_name,   \* archivo_word.filename
    wb,          \* the loaded workbook: sheet name -> (<<col, row>> -> value)
    doc,         \* the loaded document: [paragraphs, tables]
    orig,        \* history: the document as it was loaded
    pos,         \* loop position of procesar_documento
    visitados,   \* history: positions handed to reemplazar_en_parrafo, in order
    exc,         \* the exception in flight
    status,      \* status code of the response (0: none yet)
    traza,       \* history: steps of procesar executed so far
    parrafo,     \* a paragraph: a sequence of runs
    previo,      \* history: the paragraph before the last rewrite
    pasadas,     \* number of rewrites applied to parrafo
    llamadas,    \* history: calls made to the value resolver by the last rewrite
    texto,       \* argument of reemplazar_campos
    salida,      \* result of reemplazar_campos
    hecho        \* whether reemplazar_campos has been applied to texto

vars == <<pc, excel_name, word_name, wb, doc, orig, pos, visitados, exc, status,
          traza, parrafo, previo, pasadas, llamadas, texto, salida, hecho>>

----------------------------------------------------------------------------
(* Bounds of the model *)

MaxPartes == 2
MaxRuns == 3
MaxPasadas == 2
MaxCuerpo == 2
MaxTablas == 1
MaxFilas == 1
MaxCeldas == 2
MaxParrafosCelda == 2

----------------------------------------------------------------------------
(* Text helpers: Python str operations used by the code *)

\* c.isspace(), and \s of the pattern
IsSpace(c) == c = " "

\* 'x' in s
Contains(s, c) == \E k \in 1..Len(s) : s[k] = c

\* s.find(c) over 1-based positions; 0 when absent
IndexOf(s, c) ==
    IF Contains(s, c) THEN CHOOSE k \in 1..Len(s) : s[k] = c /\ \A j \in 1..(k-1) : s[j] # c
    ELSE 0

\* s.split(c, 1): the parts before and after the first c
SplitFirst(s, c) ==
    LET k == IndexOf(s, c) IN <<SubSeq(s, 1, k - 1), SubSeq(s, k + 1, Len(s))>>

\* s.strip()
Strip(s) ==
    LET keep == {k \in 1..Len(s) : ~IsSpace(s[k])} IN
    IF keep = {} THEN <<>>
    ELSE SubSeq(s, CHOOSE a \in keep : \A b \in keep : a <= b,
                   CHOOSE a \in keep : \A b \in keep : a >= b)

\* s.endswith(suf)
EndsWith(s, suf) ==
    Len(s) >= Len(suf) /\ SubSeq(s, Len(s) - Len(suf) + 1, Len(s)) = suf

\* s.replace(a, b) for one-character a and b
Replace(s, a, b) == [k \in 1..Len(s) |-> IF s[k] = a THEN b ELSE s[k]]

\* sep.join(items)
RECURSIVE Join(_, _)
Join(items, sep) ==
    IF Len(items) = 0 THEN <<>>
    ELSE IF Len(items) = 1 THEN items[1]
    ELSE items[1] \o sep \o Join(Tail(items), sep)

----------------------------------------------------------------------------
(* campo_regex = \{\{\s*([^\{\}]+?)\s*\}\} *)

\* where the run of [^\{\}] characters starting at k stops: the first brace at
\* or after k, Len(t) + 1 when there is none
RECURSIVE FirstBrace(_, _)
FirstBrace(t, k) ==
    IF k > Len(t) THEN Len(t) + 1
    ELSE IF t[k] \in {"{", "}"} THEN k
    ELSE FirstBrace(t, k + 1)

\* A match attempt anchored at position i.  After "{{" the three middle parts
\* \s* ([^{}]+?) \s* together consume a non-empty brace-free stretch (none of
\* them can cross a brace), and "}}" must follow it.  The position of the last
\* character of the match, 0 when the attempt fails.
MatchEnd(t, i) ==
    IF i + 1 <= Len(t) /\ t[i] = "{" /\ t[i + 1] = "{"
    THEN LET j == FirstBrace(t, i + 2) IN
         IF j > i + 2 /\ j + 1 <= Len(t) /\ t[j] = "}" /\ t[j + 1] = "}"
         THEN j + 1 ELSE 0
    ELSE 0

\* match.group(1) for the stretch b between "{{" and "}}".  The leading \s* is
\* greedy and gives back one character only when b is all whitespace (the group
\* needs one character); the group is lazy and stops at the last character
\* that the trailing \s* cannot take.
Group1(b) ==
    LET keep == {k \in 1..Len(b) : ~IsSpace(b[k])} IN
    IF keep = {} THEN SubSeq(b, Len(b), Len(b))
    ELSE SubSeq(b, CHOOSE a \in keep : \A c \in keep : a <= c,
                   CHOOSE a \in keep : \A c \in keep : a >= c)

\* campo_regex.search(t) is not None
Search(t) == \E i \in 1..Len(t) : MatchEnd(t, i) # 0

----------------------------------------------------------------------------
(* formatear_valor *)

DigitChar == <<"0", "1", "2", "3", "4", "5", "6", "7", "8", "9">>

RECURSIVE Digits(_)
Digits(n) ==
    IF n < 10 THEN <<DigitChar[n + 1]>>
    ELSE Digits(n \div 10) \o <<DigitChar[(n % 10) + 1]>>

Abs(n) == IF n < 0 THEN -n ELSE n

\* the number of tenths printed by the .1f format: exact for an int (and a
\* bool, which is an int), round-half-even of the binary value for a float
Decimas(valor) ==
    IF valor.t = "float"
    THEN LET a == Abs(valor.n) * 10
             q == a \div 8
             r == a % 8
         IN IF r > 4 \/ (r = 4 /\ q % 2 = 1) THEN q + 1 ELSE q
    ELSE Abs(valor.n) * 10

\* f"{valor:.1f}"
FormatoF1(valor) ==
    LET d == Decimas(valor) IN
    (IF valor.n < 0 THEN <<"-">> ELSE <<>>)
        \o Digits(d \div 10) \o <<".">> \o <<DigitChar[(d % 10) + 1]>>

\* formatear_valor with the comma rule for float alone, an int printed by str
formatear_valor_solo_float(valor) ==
    IF valor.t = "float" THEN Replace(FormatoF1(valor), ".", ",")
    ELSE IF valor.t = "int"
    THEN (IF valor.n < 0 THEN <<"-">> ELSE <<>>) \o Digits(Abs(valor.n))
    ELSE IF valor.t = "bool"
    THEN (IF valor.n = 1 THEN <<"T", "r", "u", "e">> ELSE <<"F", "a", "l", "s", "e">>)
    ELSE IF valor.t # "none" THEN valor.s ELSE <<>>

formatear_valor(valor) ==
    IF valor.t \in {"float", "int", "bool"}   \* isinstance(True, int) holds
    THEN Replace(FormatoF1(valor), ".", ",")
    ELSE IF valor.t # "none" THEN valor.s ELSE <<>>

----------------------------------------------------------------------------
(* The workbook, as openpyxl presents it *)

Vacia == [t |-> "none", n |-> 0, s |-> <<>>]
Entero(n) == [t |-> "int", n |-> n, s |-> <<>>]
Flotante(octavos) == [t |-> "float", n |-> octavos, s |-> <<>>]
Booleano(b) == [t |-> "bool", n |-> IF b THEN 1 ELSE 0, s |-> <<>>]
Cadena(s) == [t |-> "str", n |-> 0, s |-> s]

ColNum == ("A" :> 1) @@ ("B" :> 2) @@ ("C" :> 3)
RowNum == ("1" :> 1) @@ ("2" :> 2)

\* a reference of the form <column letter><row digit>
EsCelda(ref) == Len(ref) = 2 /\ ref[1] \in DOMAIN ColNum /\ ref[2] \in DOMAIN RowNum

Coord(ref) == <<ColNum[ref[1]], RowNum[ref[2]]>>

\* wb[hoja_nombre] then hoja[celda].value: KeyError for a sheet the workbook
\* lacks, an error for a reference that names no single cell
ValorCelda(w, hoja_nombre, celda) ==
    IF hoja_nombre \notin DOMAIN w THEN [exc |-> TRUE, valor |-> Vacia]
    ELSE IF ~EsCelda(celda) THEN [exc |-> TRUE, valor |-> Vacia]
    ELSE [exc |-> FALSE, valor |-> w[hoja_nombre][Coord(celda)]]

\* obtener_valor without its try/except
obtener_valor_sin_try(w, hoja_nombre, celda) ==
    LET r == ValorCelda(w, hoja_nombre, celda) IN
    [exc |-> r.exc, val |-> IF r.exc THEN <<>> ELSE formatear_valor(r.valor)]

obtener_valor(w, hoja_nombre, celda) ==
    LET r == ValorCelda(w, hoja_nombre, celda) IN
    IF r.exc THEN [exc |-> FALSE, val |-> <<>>]          \* except Exception
    ELSE [exc |-> FALSE, val |-> formatear_valor(r.valor)]

\* hoja[rango] read with celdas[-1], the last row of the range
PrimeraFila_ultima(w, hoja_nombre, rango) ==
    LET par == SplitFirst(rango, ":") IN
    IF hoja_nombre \notin DOMAIN w THEN [exc |-> TRUE, fila |-> <<>>]
    ELSE IF ~(EsCelda(par[1]) /\ EsCelda(par[2])) THEN [exc |-> TRUE, fila |-> <<>>]
    ELSE LET a == Coord(par[1])
             b == Coord(par[2])
         IN IF a[2] > b[2] THEN [exc |-> TRUE, fila |-> <<>>]
            ELSE [exc |-> FALSE,
                  fila |-> [k \in 1..(IF b[1] >= a[1] THEN b[1] - a[1] + 1 ELSE 0)
                               |-> w[hoja_nombre][<<a[1] + k - 1, b[2]>>]]]

\* wb[hoja_nombre], hoja[rango] and celdas[0]: the rows of a range a:b run from
\* the row of a to the row of b and its columns from the column of a to the
\* column of b, neither end being reordered; celdas[0] raises IndexError when
\* there is no row
PrimeraFila(w, hoja_nombre, rango) ==
    LET par == SplitFirst(rango, ":") IN
    IF hoja_nombre \notin DOMAIN w THEN [exc |-> TRUE, fila |-> <<>>]
    ELSE IF ~(EsCelda(par[1]) /\ EsCelda(par[2])) THEN [exc |-> TRUE, fila |-> <<>>]
    ELSE LET a == Coord(par[1])
             b == Coord(par[2])
         IN IF a[2] > b[2] THEN [exc |-> TRUE, fila |-> <<>>]
            ELSE [exc |-> FALSE,
                  fila |-> [k \in 1..(IF b[1] >= a[1] THEN b[1] - a[1] + 1 ELSE 0)
                               |-> w[hoja_nombre][<<a[1] + k - 1, a[2]>>]]]

obtener_valores_rango(w, hoja_nombre, rango) ==
    LET r == PrimeraFila(w, hoja_nombre, rango) IN
    IF r.exc THEN [exc |-> FALSE, val |-> <<>>]          \* except Exception
    ELSE [exc |-> FALSE, val |-> [k \in 1..Len(r.fila) |-> formatear_valor(r.fila[k])]]

----------------------------------------------------------------------------
(* reemplazar_campos *)

\* what reemplazo returns for a range and for a single cell, with the resolver
\* call it made
DeRango(r, hoja, rango) ==
    [exc |-> r.exc, val |-> Join(r.val, <<",", " ">>),
     llamadas |-> <<<<"rango", hoja, rango>>>>]

DeCelda(r, hoja, celda) ==
    [exc |-> r.exc, val |-> r.val, llamadas |-> <<<<"celda", hoja, celda>>>>]

\* the branch of reemplazo for hoja, celda_o_rango = campo.split('!', 1), stripped
ReemplazoHoja(hoja, celda_o_rango, w) ==
    IF Contains(celda_o_rango, ":")
    THEN DeRango(obtener_valores_rango(w, hoja, celda_o_rango), hoja, celda_o_rango)
    ELSE DeCelda(obtener_valor(w, hoja, celda_o_rango), hoja, celda_o_rango)

\* reemplazo without the two strip() calls
reemplazo_sin_strip(campo, w) ==
    IF Contains(campo, "!")
    THEN ReemplazoHoja(SplitFirst(campo, "!")[1], SplitFirst(campo, "!")[2], w)
    ELSE [exc |-> FALSE, val |-> <<>>, llamadas |-> <<>>]

\* reemplazo(match), campo being match.group(1)
reemplazo(campo, w) ==
    IF Contains(campo, "!")
    THEN ReemplazoHoja(Strip(SplitFirst(campo, "!")[1]), Strip(SplitFirst(campo, "!")[2]), w)
    ELSE [exc |-> FALSE, val |-> <<>>, llamadas |-> <<>>]

\* a replacement r followed by the result of the rest of the scan
Unir(r, resto) ==
    [exc |-> resto.exc, val |-> r.val \o resto.val,
     llamadas |-> r.llamadas \o resto.llamadas]

\* campo_regex.sub(reemplazo, texto) from position i on: the leftmost match is
\* replaced and the scan resumes after it, on the original text; an exception
\* raised by reemplazo ends the scan
RECURSIVE Sub(_, _, _)
RECURSIVE Seguir(_, _, _, _)
Sub(t, i, w) ==
    IF i > Len(t) THEN [exc |-> FALSE, val |-> <<>>, llamadas |-> <<>>]
    ELSE IF MatchEnd(t, i) = 0
    THEN Unir([val |-> <<t[i]>>, llamadas |-> <<>>], Sub(t, i + 1, w))
    ELSE Seguir(reemplazo(Group1(SubSeq(t, i + 2, MatchEnd(t, i) - 2)), w),
                t, MatchEnd(t, i) + 1, w)

Seguir(r, t, k, w) == IF r.exc THEN r ELSE Unir(r, Sub(t, k, w))

\* a substitution that scans its own result once more
reemplazar_campos_dos_pasadas(t, w) ==
    LET r == Sub(t, 1, w) IN
    IF r.exc THEN r ELSE Unir([val |-> <<>>, llamadas |-> r.llamadas], Sub(r.val, 1, w))

reemplazar_campos(t, w) == Sub(t, 1, w)

----------------------------------------------------------------------------
(* reemplazar_en_parrafo.  A run is [text, bold, italic, underline, font, size,
   color]; bold, italic and underline are "True", "False" or "None" (inherited),
   font, size and color are "None" when the run does not set them. *)

RECURSIVE Concat(_)
Concat(ss) == IF Len(ss) = 0 THEN <<>> ELSE ss[1] \o Concat(Tail(ss))

\* "".join(run.text for run in parrafo.runs)
TextoTotal(p) == Concat([k \in 1..Len(p) |-> p[k].text])

\* the truth value Python gives an attribute in "if estilo_original[...]:"
Truthy(v) == v \notin {"None", ""}

\* the rewrite that leaves the text of the other runs in place
Reescrito_sin_limpiar(p, r) ==
    IF Len(p) = 0 THEN p
    ELSE [p EXCEPT ![1] = [p[1] EXCEPT !.text = r.val, !.bold = "False"]]

\* the rewrite that leaves bold as it was
Reescrito_sin_negrita(p, r) ==
    IF Len(p) = 0 THEN p
    ELSE [k \in 1..Len(p) |-> [p[k] EXCEPT !.text = IF k = 1 THEN r.val ELSE <<>>]]

\* lines 99 to 123: the runs of p once the substituted text r is known
Reescrito(p, r) ==
    IF Len(p) = 0 THEN p
    ELSE LET estilo_original ==
                 [italic |-> p[1].italic, underline |-> p[1].underline,
                  font |-> p[1].font, size |-> p[1].size, color |-> p[1].color]
         IN [k \in 1..Len(p) |->
                IF k = 1
                THEN [p[1] EXCEPT
                         !.text = r.val,
                         !.bold = "False",
                         !.italic = estilo_original.italic,
                         !.underline = estilo_original.underline,
                         !.font = IF Truthy(estilo_original.font)
                                  THEN estilo_original.font ELSE @,
                         !.size = IF Truthy(estilo_original.size)
                                  THEN estilo_original.size ELSE @,
                         !.color = IF Truthy(estilo_original.color)
                                   THEN estilo_original.color ELSE @]
                ELSE [p[k] EXCEPT !.text = <<>>]]

\* lines 96 on: r is reemplazar_campos(texto_total, wb), which may have raised
ConReemplazo(p, r) ==
    [exc |-> r.exc, runs |-> IF r.exc THEN p ELSE Reescrito(p, r), llamadas |-> r.llamadas]

\* reemplazar_en_parrafo without the early return
reemplazar_en_parrafo_sin_atajo(p, w) ==
    ConReemplazo(p, reemplazar_campos(TextoTotal(p), w))

reemplazar_en_parrafo(p, w) ==
    IF ~Search(TextoTotal(p)) THEN [exc |-> FALSE, runs |-> p, llamadas |-> <<>>]
    ELSE ConReemplazo(p, reemplazar_campos(TextoTotal(p), w))

----------------------------------------------------------------------------
(* Inputs: workbooks and texts *)

Tok(campo) == <<"{", "{">> \o campo \o <<"}", "}">>

\* a sheet given by its two rows of three cells
Hoja(fila1, fila2) ==
    [c \in {1, 2, 3} \X {1, 2} |-> IF c[2] = 1 THEN fila1[c[1]] ELSE fila2[c[1]]]

\* Datos-like workbooks.  The first two agree on row 1 of sheet S and differ on
\* row 2; only the third has a sheet T.  12.5 is 100 eighths, 0.25 is 2.
Wb1 == (<<"S">> :> Hoja(<<Flotante(100), Entero(7), Vacia>>,
                        <<Cadena(<<"o", "k">>), Cadena(Tok(<<"S", "!", "A", "1">>)),
                          Booleano(TRUE)>>))
Wb2 == (<<"S">> :> Hoja(<<Flotante(100), Entero(7), Vacia>>,
                        <<Entero(-3), Cadena(<<"S", "!", "A", "1">>), Flotante(2)>>))
Wb3 == (<<"S">> :> Hoja(<<Flotante(-6), Cadena(<<"x">>), Entero(0)>>,
                        <<Vacia, Flotante(11), Cadena(<<"a", ",", "b">>)>>))
       @@ (<<"T">> :> Hoja(<<Entero(10), Vacia, Flotante(3)>>,
                           <<Vacia, Vacia, Vacia>>))

Workbooks == {Wb1, Wb2, Wb3}

Refs == {<<c, r>> : c \in DOMAIN ColNum, r \in DOMAIN RowNum}

Rangos == {a \o <<":">> \o b : a \in Refs, b \in Refs}

\* contents of tokens: every cell of S, some ranges (among them reversed ones),
\* a missing or second sheet, malformed references, padding, a bare field
Campos ==
    {<<"S", "!">> \o r : r \in Refs}
    \cup {<<"S", "!", "A", "1", ":", "C", "2">>, <<"S", "!", "B", "1", ":", "C", "2">>,
          <<"S", "!", "A", "1", ":", "A", "1">>, <<"S", "!", "B", "2", ":", "A", "1">>,
          <<"S", "!", "A", "2", ":", "A", "1">>, <<"S", "!", "A", "1", ":">>,
          <<"T", "!", "A", "1">>, <<"S", "!", "1", "A">>, <<"S", "!">>,
          <<"S", "!", "A", "!", "1">>,
          <<" ", "S", " ", "!", " ", "B", "1", " ">>, <<"c">>}

Partes ==
    {<<"{", "{">>, <<"}", "}">>, <<"{">>, <<"}">>, <<" ">>, <<"x">>,
     <<"S", "!", "A", "1">>, <<"S", "!", "A", "1", "}", "}">>}
    \cup {Tok(c) : c \in Campos}

SeqsUpTo(S, n) == UNION {[1..k -> S] : k \in 0..n}

Textos == {Concat(ps) : ps \in SeqsUpTo(Partes, MaxPartes)}

\* formatting of a run
Plano == [bold |-> "None", italic |-> "None", underline |-> "None",
          font |-> "None", size |-> "None", color |-> "None"]
Marcado == [bold |-> "True", italic |-> "True", underline |-> "True",
            font |-> "Arial", size |-> "12", color |-> "FF0000"]
Apagado == [bold |-> "False", italic |-> "False", underline |-> "False",
            font |-> "None", size |-> "10", color |-> "None"]

\* the formatting of a paragraph's runs: that of the first run, that of the others
Estilos == {<<Plano, Plano>>, <<Marcado, Apagado>>, <<Apagado, Marcado>>, <<Plano, Marcado>>}

Run(text, fmt) ==
    [text |-> text, bold |-> fmt.bold, italic |-> fmt.italic, underline |-> fmt.underline,
     font |-> fmt.font, size |-> fmt.size, color |-> fmt.color]

Parrafo(textos, estilo) ==
    [k \in 1..Len(textos) |-> Run(textos[k], IF k = 1 THEN estilo[1] ELSE estilo[2])]

\* texts of the runs of a paragraph: a token may lie in one run or be split
Fragmentos ==
    {<<>>, <<"x">>, <<"{", "{">>, <<"}", "}">>, <<"S", "!", "A", "1">>,
     Tok(<<"S", "!", "A", "1">>), Tok(<<"S", "!", "B", "2">>), Tok(<<"T", "!", "A", "1">>)}

Parrafos == {Parrafo(ts, e) : ts \in SeqsUpTo(Fragmentos, MaxRuns), e \in Estilos}

\* paragraphs of documents: plain text, a token split across runs, a token on
\* a sheet that may be missing, a malformed range, a token on an empty cell, a
\* range, and a paragraph without runs
Menu ==
    <<Parrafo(<<<<"x">>, <<"{", "{">>>>, <<Marcado, Apagado>>),
      Parrafo(<<<<"x">>, Tok(<<"T", "!", "A", "1">>)>>, <<Plano, Marcado>>),
      Parrafo(<<<<"{", "{">>, <<"S", "!", "A", "1">>, <<"}", "}">>>>, <<Marcado, Apagado>>),
      Parrafo(<<Tok(<<"S", "!", "A", "1", ":">>), <<"x">>>>, <<Apagado, Marcado>>),
      Parrafo(<<Tok(<<"S", "!", "C", "1">>) \o <<"x">>>>, <<Marcado, Apagado>>),
      Parrafo(<<Tok(<<"S", "!", "A", "1", ":", "C", "2">>)>>, <<Plano, Plano>>),
      <<>>>>

\* the k-th paragraph, in document order, of the document with seed s
DelMenu(k, s) == Menu[((k + s - 2) % Len(Menu)) + 1]

\* a document with nb body paragraphs and nt tables of nf rows of nc cells of
\* np paragraphs each (a cell always holds at least one paragraph)
Documento(nb, nt, nf, nc, np, s) ==
    [paragraphs |-> [i \in 1..nb |-> DelMenu(i, s)],
     tables |-> [t \in 1..nt |-> [f \in 1..nf |-> [c \in 1..nc |-> [q \in 1..np |->
                    DelMenu(nb + (((t - 1) * nf + (f - 1)) * nc + (c - 1)) * np + q, s)]]]]]

Documentos ==
    {Documento(nb, nt, nf, nc, np, s) :
        nb \in 0..MaxCuerpo, nt \in 0..MaxTablas, nf \in 1..MaxFilas,
        nc \in 1..MaxCeldas, np \in 1..MaxParrafosCelda, s \in 1..Len(Menu)}

\* file names of the two uploads
NombresExcel ==
    {<<"d", ".", "x", "l", "s", "x">>, <<"d", ".", "x", "l", "s", "m">>,
     <<"d", ".", "c", "s", "v">>, <<"d", ".", "X", "L", "S", "X">>}
NombresWord ==
    {<<"t", ".", "d", "o", "c", "x">>, <<"t", ".", "d", "o", "c">>,
     <<"t", ".", "x", "l", "s", "x">>}

----------------------------------------------------------------------------
(* Values of the variables a specification does not use *)

SinExc == [tipo |-> "", status |-> 0]
SinDoc == [paragraphs |-> <<>>, tables |-> <<>>]
SinWb == [h \in {} |-> Vacia]
SinPos == [fase |-> "", i |-> 0, t |-> 0, f |-> 0, c |-> 0, p |-> 0]

----------------------------------------------------------------------------
(* reemplazar_campos as a function of its arguments *)

InitCampos ==
    /\ texto \in Textos
    /\ wb \in Workbooks
    /\ salida = <<>>
    /\ hecho = FALSE
    /\ llamadas = <<>>
    /\ exc = SinExc
    /\ pc = "campos"
    /\ excel_name = <<>> /\ word_name = <<>>
    /\ doc = SinDoc /\ orig = SinDoc /\ pos = SinPos /\ visitados = <<>>
    /\ status = 0 /\ traza = <<>>
    /\ parrafo = <<>> /\ previo = <<>> /\ pasadas = 0

AplicarCampos ==
    /\ pc = "campos"
    /\ ~hecho
    /\ \E r \in {reemplazar_campos(texto, wb)} :
          /\ salida' = r.val
          /\ llamadas' = r.llamadas
          /\ exc' = IF r.exc THEN [tipo |-> "Exception", status |-> 0] ELSE exc
    /\ hecho' = TRUE
    /\ UNCHANGED <<pc, excel_name, word_name, wb, doc, orig, pos, visitados, status,
                   traza, parrafo, previo, pasadas, texto>>

NextCampos == AplicarCampos

SpecCampos == InitCampos /\ [][NextCampos]_vars

----------------------------------------------------------------------------
(* Claims about reemplazar_campos, checked under SpecCampos *)

\* brace-free text around a token
Literales == {<<>>, <<"x">>, <<" ">>}

EsDigito(c) == \E d \in 1..10 : DigitChar[d] = c

RECURSIVE NumeroDe(_)
NumeroDe(ds) ==
    IF Len(ds) = 0 THEN 0
    ELSE NumeroDe(SubSeq(ds, 1, Len(ds) - 1)) * 10
         + ((CHOOSE d \in 1..10 : DigitChar[d] = ds[Len(ds)]) - 1)

\* s is an optional "-", an integer part without padding, a comma and exactly
\* one digit
EsUnDecimalConComa(s) ==
    LET m == IF Len(s) > 0 /\ s[1] = "-" THEN Tail(s) ELSE s IN
    /\ Len(m) >= 3
    /\ m[Len(m) - 1] = ","
    /\ EsDigito(m[Len(m)])
    /\ \A k \in 1..(Len(m) - 2) : EsDigito(m[k])
    /\ (Len(m) = 3 \/ m[1] # "0")

\* the tenths s stands for, sign apart
DecimasDe(s) ==
    LET m == IF Len(s) > 0 /\ s[1] = "-" THEN Tail(s) ELSE s IN
    NumeroDe(SubSeq(m, 1, Len(m) - 2) \o <<m[Len(m)]>>)

\* s is format(v): a number (a Python bool is an int) with one decimal and a
\* comma, nearest to the value; a string as it is; nothing for an absent value
EsFormato(v, s) ==
    IF v.t \in {"int", "bool"}
    THEN EsUnDecimalConComa(s) /\ DecimasDe(s) = 10 * Abs(v.n) /\ ((s[1] = "-") <=> (v.n < 0))
    ELSE IF v.t = "float"
    THEN /\ EsUnDecimalConComa(s)
         /\ Abs(10 * Abs(v.n) - 8 * DecimasDe(s)) <= 4
         /\ ((s[1] = "-") <=> (v.n < 0))
    ELSE IF v.t = "str" THEN s = v.s
    ELSE s = <<>>

\* salida is pre, then s, then post
Entre(pre, post) == SubSeq(salida, Len(pre) + 1, Len(salida) - Len(post))

Enmarca(pre, post) ==
    /\ Len(salida) >= Len(pre) + Len(post)
    /\ SubSeq(salida, 1, Len(pre)) = pre
    /\ SubSeq(salida, Len(salida) - Len(post) + 1, Len(salida)) = post

\* texto is pre, one token and post; Medio is what the token's braces enclose
Medio(pre, post) == SubSeq(texto, Len(pre) + 3, Len(texto) - Len(post) - 2)

UnToken(pre, post) ==
    /\ Len(texto) >= Len(pre) + Len(post) + 5
    /\ texto = pre \o Tok(Medio(pre, post)) \o post

\* C4: a single-cell token {{Sheet!Cell}} on an existing sheet is replaced by
\* exactly format(v) of the cell's value v: one decimal and a comma for every
\* number (7 gives "7,0", 12.5 gives "12,5"), the string itself for a string,
\* the empty string for an absent value; the text around it stays.
C4_FormatoDeCelda ==
    hecho =>
        \A pre \in Literales, post \in Literales :
            UnToken(pre, post) =>
                \A h \in DOMAIN wb, r \in Refs :
                    Medio(pre, post) = h \o <<"!">> \o r
                    => Enmarca(pre, post) /\ EsFormato(wb[h][Coord(r)], Entre(pre, post))

C4_Testigo ==
    /\ hecho
    /\ wb = Wb1
    /\ texto = <<"x">> \o Tok(<<"S", "!", "B", "1">>)
    /\ salida = <<"x", "7", ",", "0">>

EsToken(t, i, j) ==
    /\ 1 <= i /\ j <= Len(t) /\ i + 4 <= j
    /\ t[i] = "{" /\ t[i + 1] = "{" /\ t[j - 1] = "}" /\ t[j] = "}"
    /\ \A k \in (i + 2)..(j - 2) : t[k] \notin {"{", "}"}

Tokens(t) ==
    {ij \in {i \in 1..Len(t) : t[i] = "{"} \X {j \in 1..Len(t) : t[j] = "}"} :
        EsToken(t, ij[1], ij[2])}

RECURSIVE SinBlancos(_)
SinBlancos(s) ==
    IF Len(s) = 0 THEN s
    ELSE IF s[1] = " " THEN SinBlancos(Tail(s))
    ELSE IF s[Len(s)] = " " THEN SinBlancos(SubSeq(s, 1, Len(s) - 1))
    ELSE s

\* what a token with content c stands for
ValorDeToken(c, w) ==
    IF \E k \in 1..Len(c) : c[k] = "!"
    THEN LET k == CHOOSE x \in 1..Len(c) : c[x] = "!" /\ \A y \in 1..(x - 1) : c[y] # "!"
             hoja == SinBlancos(SubSeq(c, 1, k - 1))
             ref == SinBlancos(SubSeq(c, k + 1, Len(c)))
         IN IF \E x \in 1..Len(ref) : ref[x] = ":"
            THEN Join(obtener_valores_rango(w, hoja, ref).val, <<",", " ">>)
            ELSE obtener_valor(w, hoja, ref).val
    ELSE <<>>

\* what position k of t contributes to the result, toks being the tokens of t
Aporte(t, toks, k, w) ==
    IF \E ij \in toks : ij[1] <= k /\ k <= ij[2]
    THEN LET ij == CHOOSE x \in toks : x[1] <= k /\ k <= x[2] IN
         IF k = ij[1] THEN ValorDeToken(SubSeq(t, ij[1] + 2, ij[2] - 2), w) ELSE <<>>
    ELSE <<t[k]>>

\* C6: reemplazar_campos replaces every match of {{ content }} (content
\* non-empty, without braces) and nothing else: a content with "!" is split at
\* its first "!" into sheet and reference, both trimmed, resolved as a range if
\* the reference has ":" and as a cell otherwise; a content without "!" gives
\* the empty string; every character outside a match, "{{}}" and an unclosed
\* "{{A!B1" included, stays as it is.
C6_SoloLosTokens ==
    hecho =>
        LET toks == Tokens(texto) IN
        salida = Concat([k \in 1..Len(texto) |-> Aporte(texto, toks, k, wb)])

C6_Testigo ==
    /\ hecho
    /\ wb = Wb1
    /\ texto = Tok(<<" ", "S", " ", "!", " ", "B", "1", " ">>) \o <<"{", "{">>
    /\ salida = <<"7", ",", "0", "{", "{">>

----------------------------------------------------------------------------
(* reemplazar_en_parrafo applied to a paragraph, once or again to its result *)

InitParrafo ==
    /\ parrafo \in Parrafos
    /\ previo = parrafo
    /\ pasadas = 0
    /\ wb \in Workbooks
    /\ llamadas = <<>>
    /\ exc = SinExc
    /\ pc = "parrafo"
    /\ excel_name = <<>> /\ word_name = <<>>
    /\ doc = SinDoc /\ orig = SinDoc /\ pos = SinPos /\ visitados = <<>>
    /\ status = 0 /\ traza = <<>>
    /\ texto = <<>> /\ salida = <<>> /\ hecho = FALSE

Reescribir ==
    /\ pc = "parrafo"
    /\ pasadas < MaxPasadas
    /\ \E r \in {reemplazar_en_parrafo(parrafo, wb)} :
          /\ parrafo' = r.runs
          /\ llamadas' = r.llamadas
          /\ exc' = IF r.exc THEN [tipo |-> "Exception", status |-> 0] ELSE exc
    /\ previo' = parrafo
    /\ pasadas' = pasadas + 1
    /\ UNCHANGED <<pc, excel_name, word_name, wb, doc, orig, pos, visitados, status,
                   traza, texto, salida, hecho>>

NextParrafo == Reescribir

SpecParrafo == InitParrafo /\ [][NextParrafo]_vars

Formato(run) == [bold |-> run.bold, italic |-> run.italic, underline |-> run.underline,
                 font |-> run.font, size |-> run.size, color |-> run.color]

\* C1: when the flattened text of the paragraph holds a token, also one split
\* across runs, the rewrite leaves the same number of runs, puts
\* reemplazar_campos of the flattened text in the first run and empties the
\* text of every other run.
C1_TextoEnLaPrimeraRun ==
    (pasadas >= 1 /\ Search(TextoTotal(previo))) =>
        /\ Len(parrafo) = Len(previo)
        /\ parrafo[1].text = reemplazar_campos(TextoTotal(previo), wb).val
        /\ \A k \in 2..Len(parrafo) : parrafo[k].text = <<>>

C1_Testigo ==
    /\ pasadas = 1
    /\ wb = Wb1
    /\ Len(previo) = 3
    /\ previo[1].text = <<"{", "{">>
    /\ previo[2].text = <<"S", "!", "A", "1">>
    /\ previo[3].text = <<"}", "}">>
    /\ parrafo[1].text = <<"1", "2", ",", "5">>

\* C2: when the flattened text holds no token (a paragraph without runs
\* included) the rewrite changes nothing, neither the runs, their texts nor
\* their formatting, and the value resolver is not called.
C2_SinTokenNoCambia ==
    (pasadas >= 1 /\ ~Search(TextoTotal(previo))) =>
        parrafo = previo /\ llamadas = <<>>

C2_Testigo ==
    /\ pasadas = 1
    /\ Len(previo) = 2
    /\ previo[1].text = <<"{", "{">>
    /\ previo[2].text = <<"S", "!", "A", "1">>
    /\ previo[1].bold = "True"
    /\ parrafo = previo

\* C7: when the paragraph holds a token, after the rewrite the first run's
\* bold is off whatever it was, its italic, underline, font, size and color
\* are what they were, and the formatting of the other runs is unchanged.
C7_NegritaApagada ==
    (pasadas >= 1 /\ Search(TextoTotal(previo))) =>
        /\ parrafo[1].bold = "False"
        /\ Formato(parrafo[1]) = [Formato(previo[1]) EXCEPT !.bold = "False"]
        /\ \A k \in 2..Len(previo) : Formato(parrafo[k]) = Formato(previo[k])

C7_Testigo ==
    /\ pasadas = 1
    /\ Len(previo) = 2
    /\ Search(TextoTotal(previo))
    /\ Formato(previo[1]) = Marcado
    /\ Formato(previo[2]) = Apagado
    /\ Formato(parrafo[1]) = [Marcado EXCEPT !.bold = "False"]

\* C10: reemplazar_campos passes once over the original text: the leftmost
\* token is replaced by its value as it is, token-like or not, and the scan
\* goes on after the token, never over the value.  So the result may still hold
\* a token and a second rewrite may change it.
C10_UnaSolaPasada ==
    pasadas >= 1 =>
        LET t == TextoTotal(previo)
            toks == Tokens(t)
        IN toks # {} =>
            LET ij == CHOOSE x \in toks : \A y \in toks : x[1] <= y[1] IN
            parrafo[1].text =
                SubSeq(t, 1, ij[1] - 1)
                \o ValorDeToken(SubSeq(t, ij[1] + 2, ij[2] - 2), wb)
                \o reemplazar_campos(SubSeq(t, ij[2] + 1, Len(t)), wb).val

C10_Testigo ==
    /\ pasadas = 2
    /\ wb = Wb2
    /\ Search(TextoTotal(previo))
    /\ TextoTotal(previo) = Tok(<<"S", "!", "A", "1">>)
    /\ TextoTotal(parrafo) = <<"1", "2", ",", "5">>

----------------------------------------------------------------------------
(* procesar_documento: the loops over doc.paragraphs and doc.tables *)

Fin == [fase |-> "fin", i |-> 0, t |-> 0, f |-> 0, c |-> 0, p |-> 0]
EnCuerpo(i) == [fase |-> "cuerpo", i |-> i, t |-> 0, f |-> 0, c |-> 0, p |-> 0]
EnTabla(t, f, c, p) == [fase |-> "tablas", i |-> 0, t |-> t, f |-> f, c |-> c, p |-> p]

\* where the second loop starts
PrimeraTabla(d) == IF Len(d.tables) > 0 THEN EnTabla(1, 1, 1, 1) ELSE Fin

\* where procesar_documento starts
Primera(d) == IF Len(d.paragraphs) > 0 THEN EnCuerpo(1) ELSE PrimeraTabla(d)

\* the loops with the one over doc.tables left out
Avanzar_sin_tablas(d, q) ==
    IF q.fase = "cuerpo" /\ q.i < Len(d.paragraphs) THEN EnCuerpo(q.i + 1) ELSE Fin

\* the next iteration of the loops after the one at q
Avanzar(d, q) ==
    IF q.fase = "cuerpo"
    THEN IF q.i < Len(d.paragraphs) THEN EnCuerpo(q.i + 1) ELSE PrimeraTabla(d)
    ELSE IF q.p < Len(d.tables[q.t][q.f][q.c]) THEN EnTabla(q.t, q.f, q.c, q.p + 1)
    ELSE IF q.c < Len(d.tables[q.t][q.f]) THEN EnTabla(q.t, q.f, q.c + 1, 1)
    ELSE IF q.f < Len(d.tables[q.t]) THEN EnTabla(q.t, q.f + 1, 1, 1)
    ELSE IF q.t < Len(d.tables) THEN EnTabla(q.t + 1, 1, 1, 1)
    ELSE Fin

\* the paragraph of d at position q
ParrafoEn(d, q) ==
    IF q.fase = "cuerpo" THEN d.paragraphs[q.i] ELSE d.tables[q.t][q.f][q.c][q.p]

----------------------------------------------------------------------------
(* The /procesar request *)

ExcelValido(nombre) ==
    EndsWith(nombre, <<".", "x", "l", "s", "x">>) \/ EndsWith(nombre, <<".", "x", "l", "s", "m">>)

WordValido(nombre) == EndsWith(nombre, <<".", "d", "o", "c", "x">>)

Init ==
    /\ pc = "validar"
    /\ excel_name \in NombresExcel
    /\ word_name \in NombresWord
    /\ wb = SinWb
    /\ doc = SinDoc /\ orig = SinDoc
    /\ pos = SinPos
    /\ visitados = <<>>
    /\ exc = SinExc
    /\ status = 0
    /\ traza = <<>>
    /\ llamadas = <<>>
    /\ parrafo = <<>> /\ previo = <<>> /\ pasadas = 0
    /\ texto = <<>> /\ salida = <<>> /\ hecho = FALSE

Quietas == <<parrafo, previo, pasadas, texto, salida, hecho, excel_name, word_name>>

\* the two filename checks, each raising HTTPException(400)
Validar ==
    /\ pc = "validar"
    /\ IF ~ExcelValido(excel_name) \/ ~WordValido(word_name)
       THEN exc' = [tipo |-> "HTTPException", status |-> 400] /\ pc' = "except"
       ELSE exc' = exc /\ pc' = "leer"
    /\ UNCHANGED <<wb, doc, orig, pos, visitados, status, traza, llamadas>>
    /\ UNCHANGED Quietas

\* await archivo_excel.read(); await archivo_word.read()
LeerArchivos ==
    /\ pc = "leer"
    /\ traza' = traza \o <<"read", "read">>
    /\ pc' = "load_workbook"
    /\ UNCHANGED <<wb, doc, orig, pos, visitados, exc, status, llamadas>>
    /\ UNCHANGED Quietas

\* load_workbook(...): a workbook, or an exception for bytes that are none
CargarWorkbook ==
    /\ pc = "load_workbook"
    /\ traza' = Append(traza, "load_workbook")
    /\ \/ \E w \in Workbooks : wb' = w /\ exc' = exc /\ pc' = "Document"
       \/ wb' = wb /\ exc' = [tipo |-> "Exception", status |-> 0] /\ pc' = "except"
    /\ UNCHANGED <<doc, orig, pos, visitados, status, llamadas>>
    /\ UNCHANGED Quietas

\* Document(word_stream): a document, or an exception for bytes that are none
CargarDocumento ==
    /\ pc = "Document"
    /\ traza' = Append(traza, "Document")
    /\ \/ \E d \in Documentos :
            /\ doc' = d /\ orig' = d /\ pos' = Primera(d)
            /\ exc' = exc /\ pc' = "procesar_documento"
       \/ /\ UNCHANGED <<doc, orig, pos>>
          /\ exc' = [tipo |-> "Exception", status |-> 0] /\ pc' = "except"
    /\ UNCHANGED <<wb, visitados, status, llamadas>>
    /\ UNCHANGED Quietas

\* one iteration of "for p in doc.paragraphs"
ParrafoCuerpo ==
    /\ pc = "procesar_documento"
    /\ pos.fase = "cuerpo"
    /\ \E r \in {reemplazar_en_parrafo(doc.paragraphs[pos.i], wb)} :
          /\ doc' = [doc EXCEPT !.paragraphs[pos.i] = r.runs]
          /\ llamadas' = r.llamadas
          /\ exc' = IF r.exc THEN [tipo |-> "Exception", status |-> 0] ELSE exc
          /\ pc' = IF r.exc THEN "except" ELSE pc
          /\ pos' = IF r.exc THEN pos ELSE Avanzar(doc, pos)
    /\ visitados' = Append(visitados, pos)
    /\ UNCHANGED <<wb, orig, status, traza>>
    /\ UNCHANGED Quietas

\* one iteration of the innermost loop over doc.tables
ParrafoTabla ==
    /\ pc = "procesar_documento"
    /\ pos.fase = "tablas"
    /\ \E r \in {reemplazar_en_parrafo(doc.tables[pos.t][pos.f][pos.c][pos.p], wb)} :
          /\ doc' = [doc EXCEPT !.tables[pos.t][pos.f][pos.c][pos.p] = r.runs]
          /\ llamadas' = r.llamadas
          /\ exc' = IF r.exc THEN [tipo |-> "Exception", status |-> 0] ELSE exc
          /\ pc' = IF r.exc THEN "except" ELSE pc
          /\ pos' = IF r.exc THEN pos ELSE Avanzar(doc, pos)
    /\ visitados' = Append(visitados, pos)
    /\ UNCHANGED <<wb, orig, status, traza>>
    /\ UNCHANGED Quietas

\* procesar_documento has returned: doc.save(output_stream)
Guardar ==
    /\ pc = "procesar_documento"
    /\ pos.fase = "fin"
    /\ traza' = Append(traza, "save")
    /\ pc' = "responder"
    /\ UNCHANGED <<wb, doc, orig, pos, visitados, exc, status, llamadas>>
    /\ UNCHANGED Quietas

\* return Response(content=..., media_type=docx, headers=...)
Responder ==
    /\ pc = "responder"
    /\ traza' = Append(traza, "Response")
    /\ status' = 200
    /\ pc' = "fin"
    /\ UNCHANGED <<wb, doc, orig, pos, visitados, exc, llamadas>>
    /\ UNCHANGED Quietas

\* the handler with the clause "except HTTPException: raise" left out
ManejarExcepcion_todo500 ==
    /\ pc = "except"
    /\ exc' = [tipo |-> "HTTPException", status |-> 500]
    /\ pc' = "handler"
    /\ UNCHANGED <<wb, doc, orig, pos, visitados, status, traza, llamadas>>
    /\ UNCHANGED Quietas

\* except HTTPException: raise / except Exception: raise HTTPException(500, ...)
ManejarExcepcion ==
    /\ pc = "except"
    /\ exc' = IF exc.tipo = "HTTPException" THEN exc
              ELSE [tipo |-> "HTTPException", status |-> 500]
    /\ pc' = "handler"
    /\ UNCHANGED <<wb, doc, orig, pos, visitados, status, traza, llamadas>>
    /\ UNCHANGED Quietas

\* http_exception_handler: error.html with status_code=exc.status_code
http_exception_handler ==
    /\ pc = "handler"
    /\ status' = exc.status
    /\ pc' = "fin"
    /\ UNCHANGED <<wb, doc, orig, pos, visitados, exc, traza, llamadas>>
    /\ UNCHANGED Quietas

Next ==
    \/ Validar
    \/ LeerArchivos
    \/ CargarWorkbook
    \/ CargarDocumento
    \/ ParrafoCuerpo
    \/ ParrafoTabla
    \/ Guardar
    \/ Responder
    \/ ManejarExcepcion
    \/ http_exception_handler

Spec == Init /\ [][Next]_vars

----------------------------------------------------------------------------
(* Claims about the request, checked under Spec *)

\* the document has been loaded
Cargado == pos # SinPos

\* every position of a paragraph of d
TodasPos(d) ==
    {EnCuerpo(i) : i \in 1..Len(d.paragraphs)}
    \cup UNION {UNION {UNION {{EnTabla(t, f, c, q) : q \in 1..Len(d.tables[t][f][c])} :
                                c \in 1..Len(d.tables[t][f])} :
                         f \in 1..Len(d.tables[t])} :
                  t \in 1..Len(d.tables)}

Visitadas == {visitados[k] : k \in 1..Len(visitados)}

\* document order: the body first, then the tables, rows, cells and paragraphs
Antes(a, b) ==
    \/ a.fase = "cuerpo" /\ b.fase = "tablas"
    \/ a.fase = "cuerpo" /\ b.fase = "cuerpo" /\ a.i < b.i
    \/ /\ a.fase = "tablas" /\ b.fase = "tablas"
       /\ \/ a.t < b.t
          \/ a.t = b.t /\ a.f < b.f
          \/ a.t = b.t /\ a.f = b.f /\ a.c < b.c
          \/ a.t = b.t /\ a.f = b.f /\ a.c = b.c /\ a.p < b.p

\* references that name no cell and ranges that name no rectangle
RefsMalas == {<<"1", "A">>, <<>>, <<"A">>, <<"A", "!", "1">>}
RangosMalos ==
    {<<"A", "1", ":">>, <<":">>, <<"A", "1", ":", "B">>, <<"A", "2", ":", "A", "1">>,
     <<"B", "2", ":", "A", "1">>}
HojasDeToken == {<<"S">>, <<"T">>, <<>>}

FallaCelda(w, h, ref) ==
    h \notin DOMAIN w \/ ref \notin Refs \/ w[h][Coord(ref)].t = "none"

FallaRango(w, h, rng) == h \notin DOMAIN w \/ rng \in RangosMalos

\* contents of tokens whose resolution fails on workbook w
CamposFallidos(w) ==
    {h \o <<"!">> \o ref : <<h, ref>> \in
        {x \in HojasDeToken \X ((Refs \cup RefsMalas) \ {<<"A", "!", "1">>}) :
            FallaCelda(w, x[1], x[2])}}
    \cup {h \o <<"!">> \o rng : h \in HojasDeToken, rng \in RangosMalos}

\* C3: a token on a missing sheet, an empty cell or a malformed cell or range
\* reference never aborts: obtener_valor gives "" and obtener_valores_rango the
\* empty sequence without raising, the token is replaced by "", and
\* procesar_documento rewrites every remaining paragraph and ends without an
\* error, the request answering 200.
C3_FallosNoAbortan ==
    Cargado =>
        /\ \A h \in HojasDeToken, ref \in Refs \cup RefsMalas :
              FallaCelda(wb, h, ref)
              => obtener_valor(wb, h, ref) = [exc |-> FALSE, val |-> <<>>]
        /\ \A h \in HojasDeToken, rng \in Rangos \cup RangosMalos :
              FallaRango(wb, h, rng)
              => obtener_valores_rango(wb, h, rng) = [exc |-> FALSE, val |-> <<>>]
        /\ exc = SinExc
        /\ pc \in {"procesar_documento", "responder", "fin"}
        /\ (pc = "fin" => status = 200)
        /\ (pos.fase = "fin" => Visitadas = TodasPos(orig))
        /\ \A q \in Visitadas :
              LET t == TextoTotal(ParrafoEn(orig, q)) IN
              /\ Search(t) =>
                    ParrafoEn(doc, q)[1].text = reemplazar_campos(t, wb).val
              /\ \A pre \in Literales, post \in Literales :
                    (/\ Len(t) >= Len(pre) + Len(post) + 5
                     /\ t = pre \o Tok(SubSeq(t, Len(pre) + 3, Len(t) - Len(post) - 2)) \o post
                     /\ SubSeq(t, Len(pre) + 3, Len(t) - Len(post) - 2) \in CamposFallidos(wb))
                    => ParrafoEn(doc, q)[1].text = pre \o post

C3_Testigo ==
    /\ pc = "fin"
    /\ status = 200
    /\ <<"T">> \notin DOMAIN wb
    /\ Len(orig.paragraphs) = 2
    /\ TextoTotal(orig.paragraphs[1]) = <<"x">> \o Tok(<<"T", "!", "A", "1">>)
    /\ TextoTotal(doc.paragraphs[1]) = <<"x">>
    /\ TextoTotal(orig.paragraphs[2]) = Tok(<<"S", "!", "A", "1">>)
    /\ TextoTotal(doc.paragraphs[2]) = <<"1", "2", ",", "5">>

\* b is a with nothing changed but run texts and the bold of the first run,
\* and nothing at all when a holds no token
SoloTextoYNegrita(a, b) ==
    /\ Len(b) = Len(a)
    /\ (~Search(TextoTotal(a)) => b = a)
    /\ \A k \in 1..Len(a) :
          /\ [b[k] EXCEPT !.text = a[k].text, !.bold = a[k].bold] = a[k]
          /\ (k > 1 => b[k].bold = a[k].bold)

C9_ValidacionPrimero ==
    (~ExcelValido(excel_name) \/ ~WordValido(word_name)) =>
        /\ traza = <<>>
        /\ wb = SinWb /\ doc = SinDoc /\ ~Cargado
        /\ visitados = <<>>
        /\ status \in {0, 400}
        /\ exc \in {SinExc, [tipo |-> "HTTPException", status |-> 400]}
        /\ (pc = "fin" => status = 400)

C9_Testigo ==
    /\ pc = "fin"
    /\ status = 400
    /\ excel_name = <<"d", ".", "c", "s", "v">>
    /\ word_name = <<"t", ".", "d", "o", "c", "x">>
    /\ traza = <<>>

====
